---- MODULE Spec2Model ----
(***************************************************************************)
(* A model of pymax (src/pymax.py): the per-file pipeline process_file,    *)
(* the batch driver main, and the pure functions they call.                *)
(*                                                                         *)
(* Source text is a sequence of tokens.  A token is one character of       *)
(* white space (" ", "\t", "\n", "\r") or one word of the program (a       *)
(* keyword, an identifier, a punctuation mark).  Identifiers are strings;  *)
(* Spell gives the characters of an identifier where the code looks        *)
(* inside a name (len, islower, difflib).                                  *)
(***************************************************************************)
EXTENDS Integers, Sequences, FiniteSets, TLC

(***************************************************************************)
(* Bounds of the model.                                                    *)
(***************************************************************************)
\* lines of a file handed to process_file (specification Spec)
MaxLines == 3
\* files of a batch handed to main (specification SpecMain)
MaxFiles == 2
\* lines of all files of a batch together (specification SpecMain)
MaxBatchLines == 2
\* distinct identifiers of a collector (specification SpecTypos)
MaxIdents == 2
\* occurrences of one identifier in one namespace (specification SpecTypos)
MaxCount == 2
\* tokens the buffered writer hands to the file at once
BufferSize == 4
\* tokens of a text handed to normalize_whitespace (specification SpecNormalize)
MaxTokens == 5
\* calls of normalize_whitespace in a row (specification SpecNormalize)
MaxPasses == 2
\* lines of a file of import statements (specification SpecImports)
MaxImportLines == 2
\* lines of a file of indented lines (specification SpecLint)
MaxLintLines == 2

(***************************************************************************)
(* Generic helpers on sequences.                                           *)
(***************************************************************************)
Min(a, b) == IF a <= b THEN a ELSE b

Range(s) == {s[i] : i \in 1..Len(s)}

Drop(s, k) == SubSeq(s, k + 1, Len(s))

Take(s, k) == SubSeq(s, 1, k)

\* number of i with s[i] = x
Count(s, x) == Cardinality({i \in 1..Len(s) : s[i] = x})

\* the elements of s at the positions in keep, in order
SelectIdx(s, keep) ==
    LET F[i \in 0..Len(s)] ==
            IF i = 0 THEN <<>>
            ELSE IF i \in keep THEN Append(F[i - 1], s[i]) ELSE F[i - 1]
    IN F[Len(s)]

\* concatenation of a sequence of sequences
Flatten(ss) ==
    LET F[i \in 0..Len(ss)] == IF i = 0 THEN <<>> ELSE F[i - 1] \o ss[i]
    IN F[Len(ss)]

\* length of the longest prefix of s whose elements are all in S
PrefixLen(s, S) ==
    IF \A i \in 1..Len(s) : s[i] \in S THEN Len(s)
    ELSE (CHOOSE i \in 1..Len(s) : s[i] \notin S /\ \A j \in 1..(i - 1) : s[j] \in S) - 1

\* n copies of x
Repeat(x, n) == [i \in 1..n |-> x]

(***************************************************************************)
(* Characters and tokens.                                                  *)
(***************************************************************************)
\* the characters of a leading-white-space prefix, [ \t]
Blank == {" ", "\t"}

\* the characters Python's \s matches
Space == {" ", "\t", "\n", "\r"}

\* the line boundaries str.splitlines knows
LineEnd == {"\n", "\r"}

\* the identifiers of the modelled programs, with their characters
Spell(name) ==
    CASE name = "os" -> <<"o", "s">>
      [] name = "v" -> <<"v">>
      [] name = "val" -> <<"v", "a", "l">>
      [] name = "vals" -> <<"v", "a", "l", "s">>
      [] name = "oval" -> <<"o", "v", "a", "l">>
      [] name = "valS" -> <<"v", "a", "l", "S">>
      [] name = "Val" -> <<"V", "a", "l">>
      [] name = "Vals" -> <<"V", "a", "l", "s">>

\* the code point of a character
Ord(c) ==
    CASE c = "S" -> 83 [] c = "V" -> 86 [] c = "a" -> 97 [] c = "l" -> 108
      [] c = "o" -> 111 [] c = "s" -> 115 [] c = "v" -> 118

LowerChars == {"a", "l", "o", "s", "v"}

UpperChars == {"S", "V"}

\* a < b for two strings, as Python compares them
StrLess(a, b) ==
    LET x == Spell(a)
        y == Spell(b)
        n == Min(Len(x), Len(y))
        same == PrefixLen([i \in 1..n |-> x[i] = y[i]], {TRUE})
    IN IF same = n THEN Len(x) < Len(y) ELSE Ord(x[same + 1]) < Ord(y[same + 1])

\* str.islower: no upper-case character and at least one cased character
islower(name) ==
    /\ \A i \in 1..Len(Spell(name)) : Spell(name)[i] \notin UpperChars
    /\ \E i \in 1..Len(Spell(name)) : Spell(name)[i] \in LowerChars

(***************************************************************************)
(* Text: str.splitlines, "\n".join, file input and output.                 *)
(***************************************************************************)
\* str.splitlines: the lines of a text, without their line boundaries; a
\* final boundary opens no empty last line, "\r\n" is one boundary
RECURSIVE splitlines(_)
\* t with its first line boundary at k: the first line, then the others
SplitAt(t, k) ==
    IF k > Len(t) THEN <<t>>
    ELSE <<Take(t, k - 1)>>
         \o splitlines(Drop(t, IF t[k] = "\r" /\ k < Len(t) /\ t[k + 1] = "\n"
                               THEN k + 1 ELSE k))

splitlines(t) ==
    IF t = <<>> THEN <<>>
    ELSE SplitAt(t, PrefixLen(t, {x \in Range(t) : x \notin LineEnd}) + 1)

\* "\n".join(lines)
join(lines) ==
    Flatten([i \in 1..Len(lines) |->
                IF i = 1 THEN lines[i] ELSE <<"\n">> \o lines[i]])

\* text.endswith("\n")
endswith_nl(t) == t # <<>> /\ t[Len(t)] = "\n"

\* read_file: open(path, "r") reads in universal-newlines mode, which hands
\* "\r\n" and a lone "\r" to the program as "\n"
read_file(bytes) ==
    SelectIdx([i \in 1..Len(bytes) |-> IF bytes[i] = "\r" THEN "\n" ELSE bytes[i]],
              {i \in 1..Len(bytes) :
                  ~(bytes[i] = "\n" /\ i > 1 /\ bytes[i - 1] = "\r")})

\* s without its trailing elements that are in S (str.rstrip)
rstrip(s, S) ==
    IF \A i \in 1..Len(s) : s[i] \in S THEN <<>>
    ELSE Take(s, CHOOSE i \in 1..Len(s) :
                    s[i] \notin S /\ \A j \in (i + 1)..Len(s) : s[j] \in S)

\* write_file: open(path, "w", newline="\n") writes the text as it is
write_bytes(t) == t

(***************************************************************************)
(* Messages of a result: a kind and the line it is about (0: the file).    *)
(***************************************************************************)
Msg(kind, line) == [kind |-> kind, line |-> line]

(***************************************************************************)
(* normalize_whitespace, the formatting fallback.                          *)
(***************************************************************************)
\* spaces one leading tab becomes
TabWidth == 4

\* expand_tabs that makes spaces of the first tab of the leading white
\* space only, wherever it stands
expand_tabs_first(i, ln, m, tabs) ==
    IF m > 0 /\ "\t" \in Range(Take(ln, m))
    THEN [ln |-> Take(ln, PrefixLen(ln, {" "})) \o Repeat(" ", TabWidth)
                 \o Drop(ln, PrefixLen(ln, {" "}) + 1),
          msgs |-> <<Msg("converted leading tabs to spaces", i)>>]
    ELSE [ln |-> ln, msgs |-> <<>>]

\* lines 96-104: the line with its leading tabs made spaces, if its leading
\* white space (m characters, [ \t]+) holds a tab, of which tabs lead the line
expand_tabs(i, ln, m, tabs) ==
    IF m > 0 /\ "\t" \in Range(Take(ln, m))
    THEN [ln |-> Repeat(" ", TabWidth * tabs) \o Drop(ln, tabs),
          msgs |-> <<Msg("converted leading tabs to spaces", i)>>]
    ELSE [ln |-> ln, msgs |-> <<>>]

\* lines 90-94: the message for a line that rstrip changed
strip_msgs(i, ln0, stripped) ==
    IF stripped # ln0 THEN <<Msg("trailing whitespace removed", i)>> ELSE <<>>

\* one turn of the loop over the lines, stripped being ln.rstrip("\r\n"):
\* [ln, msgs]
normalize_stripped(i, ln0, stripped, expanded) ==
    [ln |-> expanded.ln, msgs |-> strip_msgs(i, ln0, stripped) \o expanded.msgs]

normalize_line(i, ln0, stripped) ==
    normalize_stripped(i, ln0, stripped,
        expand_tabs(i, stripped, PrefixLen(stripped, Blank), PrefixLen(stripped, {"\t"})))

\* line 108: the lines joined, with the final line boundary of the text
normalize_join(t, done) ==
    [text |-> join([i \in 1..Len(done) |-> done[i].ln])
              \o (IF endswith_nl(t) THEN <<"\n">> ELSE <<>>),
     msgs |-> Flatten([i \in 1..Len(done) |-> done[i].msgs])]

normalize_lines(t, lines) ==
    normalize_join(t, [i \in 1..Len(lines) |->
                          normalize_line(i, lines[i], rstrip(lines[i], {"\r", "\n"}))])

normalize_whitespace(t) == normalize_lines(t, splitlines(t))

(***************************************************************************)
(* process_file, step 1: the white-space lint.                             *)
(***************************************************************************)
\* the set of leading-white-space prefixes of the lines
patterns_of(lines) ==
    {p \in {Take(lines[i], PrefixLen(lines[i], Blank)) : i \in 1..Len(lines)} : p # <<>>}

leading_patterns(t) == patterns_of(splitlines(t))

\* more distinct space counts than this are "inconsistent"
MaxIndentWidths == 2

\* mixed_lint that wants a pattern of tabs only beside a pattern with a space
mixed_lint_tabs_only(pats) ==
    IF (\E p \in pats : Range(p) = {"\t"}) /\ (\E p \in pats : " " \in Range(p))
    THEN <<Msg("Mixed tabs and spaces", 0)>> ELSE <<>>

\* lines 359-362
mixed_lint(pats) ==
    IF (\E p \in pats : "\t" \in Range(p)) /\ (\E p \in pats : " " \in Range(p))
    THEN <<Msg("Mixed tabs and spaces", 0)>> ELSE <<>>

\* lines 364-373
width_lint(pats) ==
    IF Cardinality({Count(p, " ") : p \in pats} \ {0}) > MaxIndentWidths
    THEN <<Msg("Inconsistent indentation widths", 0)>> ELSE <<>>

lint_of(pats) == mixed_lint(pats) \o width_lint(pats)

whitespace_lint(t) == lint_of(leading_patterns(t))

(***************************************************************************)
(* ast.parse, for the statements of the modelled programs:                 *)
(*   import a.b [as c], ...      from a.b import * | c [as d], ...         *)
(*   if EXPR:                    NAME = EXPR         EXPR         pass     *)
(* with EXPR a name followed by attribute accesses, NAME(.NAME)*.  A tree  *)
(* is what the visitors of the code read from it: the Name nodes, the      *)
(* attribute members and the local names of the imports, the latter in the *)
(* order of ast.walk (breadth first: by depth, then by position).          *)
(***************************************************************************)
Words == {"import", "from", "as", "if", "pass", ":", "=", ",", ".", "(", "*"}

IsIdent(tok) == tok \notin Words /\ tok \notin Space

\* NAME(.NAME)*
IsDotted(s) ==
    /\ Len(s) % 2 = 1
    /\ \A i \in 1..Len(s) : IF i % 2 = 1 THEN IsIdent(s[i]) ELSE s[i] = "."

\* the pieces of s between the separators sep
RECURSIVE SplitOn(_, _)
SplitFrom(s, sep, k) ==
    IF k > Len(s) THEN <<s>>
    ELSE <<Take(s, k - 1)>> \o SplitOn(Drop(s, k), sep)

SplitOn(s, sep) == SplitFrom(s, sep, PrefixLen(s, {x \in Range(s) : x # sep}) + 1)

\* an alias of an import statement: a.b [as c]
IsImportItem(s) ==
    \/ IsDotted(s)
    \/ /\ Len(s) >= 3
       /\ s[Len(s) - 1] = "as"
       /\ IsIdent(s[Len(s)])
       /\ IsDotted(Take(s, Len(s) - 2))

\* an alias of a from-import statement: c [as d]
IsFromItem(s) ==
    \/ Len(s) = 1 /\ IsIdent(s[1])
    \/ Len(s) = 3 /\ IsIdent(s[1]) /\ s[2] = "as" /\ IsIdent(s[3])

\* n.asname or n.name.split(".")[0]; for a from-import n.asname or n.name
LocalName(item) == IF Len(item) >= 3 /\ item[Len(item) - 1] = "as"
                   THEN item[Len(item)] ELSE item[1]

NoStmt == [ok |-> FALSE, header |-> FALSE, names |-> <<>>, attrs |-> <<>>,
           imports |-> <<>>]

ExprStmt(s, header) ==
    [ok |-> TRUE, header |-> header, names |-> <<s[1]>>,
     attrs |-> [i \in 1..(Len(s) \div 2) |-> s[2 * i + 1]], imports |-> <<>>]

\* import items
ImportStmt(items) ==
    IF \A i \in 1..Len(items) : IsImportItem(items[i])
    THEN [NoStmt EXCEPT !.ok = TRUE,
                        !.imports = [i \in 1..Len(items) |-> LocalName(items[i])]]
    ELSE NoStmt

\* from ... import items
FromItems(items) ==
    IF \A i \in 1..Len(items) : IsFromItem(items[i])
    THEN [NoStmt EXCEPT !.ok = TRUE,
                        !.imports = [i \in 1..Len(items) |-> LocalName(items[i])]]
    ELSE NoStmt

\* from b[2..k-1] import b[k+1..], the word import being at k
FromStmt(b, k) ==
    IF k > Len(b) \/ ~IsDotted(SubSeq(b, 2, k - 1)) THEN NoStmt
    ELSE IF Drop(b, k) = <<"*">> THEN [NoStmt EXCEPT !.ok = TRUE]
    ELSE FromItems(SplitOn(Drop(b, k), ","))

\* NAME = EXPR, e being the statement EXPR
AssignStmt(target, e) == [e EXCEPT !.names = <<target>> \o e.names]

\* one statement, from the words of its line
ParseStmt(b) ==
    IF b = <<"pass">> THEN [NoStmt EXCEPT !.ok = TRUE]
    ELSE IF b[1] = "import" THEN ImportStmt(SplitOn(Drop(b, 1), ","))
    ELSE IF b[1] = "from"
    THEN FromStmt(b, PrefixLen(b, {x \in Range(b) : x # "import"}) + 1)
    ELSE IF b[1] = "if" THEN
        IF Len(b) >= 3 /\ b[Len(b)] = ":" /\ IsDotted(SubSeq(b, 2, Len(b) - 1))
        THEN ExprStmt(SubSeq(b, 2, Len(b) - 1), TRUE)
        ELSE NoStmt
    ELSE IF Len(b) >= 3 /\ IsIdent(b[1]) /\ b[2] = "=" /\ IsDotted(Drop(b, 2))
    THEN AssignStmt(b[1], ExprStmt(Drop(b, 2), FALSE))
    ELSE IF IsDotted(b) THEN ExprStmt(b, FALSE)
    ELSE NoStmt

\* columns a tab stop is apart for the tokenizer
TabStop == 8

\* the column after one more character of indentation, from column c
NextColumn(c, ch) == IF ch = "\t" THEN (c \div TabStop + 1) * TabStop ELSE c + 1

\* the column of an indentation, tabs running to the next tab stop
RECURSIVE Column(_)
Column(indent) ==
    IF indent = <<>> THEN 0
    ELSE NextColumn(Column(Take(indent, Len(indent) - 1)), indent[Len(indent)])

\* a logical line: [col, alt, stmt]; alt is the column with tabs one wide,
\* which the tokenizer compares too (TabError); m is the length of the
\* indentation
LogicalLine(ln, m) ==
    [col |-> Column(Take(ln, m)), alt |-> m,
     stmt |-> ParseStmt(SelectIdx(ln, {j \in 1..Len(ln) : ln[j] \notin Space}))]

\* the logical lines among lines: every line that is not blank
LogicalOf(lines) ==
    SelectIdx(lines,
              {i \in 1..Len(lines) : \E j \in 1..Len(lines[i]) : lines[i][j] \notin Space})

LogicalFrom(ls) == [i \in 1..Len(ls) |-> LogicalLine(ls[i], PrefixLen(ls[i], Blank))]

LogicalLines(t) == LogicalFrom(LogicalOf(splitlines(t)))

\* the stack of open indentations after a line at (col, alt), or <<>> for an
\* indentation the tokenizer or the parser rejects; expect: the line before
\* opened a block; keep: the open indentations not deeper than the line
Indent(stack, col, alt, expect, keep) ==
    IF col = stack[Len(stack)][1]
    THEN IF alt # stack[Len(stack)][2] \/ expect THEN <<>> ELSE stack
    ELSE IF col > stack[Len(stack)][1]
    THEN IF alt <= stack[Len(stack)][2] \/ ~expect THEN <<>>
         ELSE Append(stack, <<col, alt>>)
    ELSE IF expect \/ stack[keep][1] # col \/ stack[keep][2] # alt THEN <<>>
         ELSE Take(stack, keep)

\* depth d of a line before the depths of the lines after it
Cons(d, rest) ==
    IF rest # <<>> /\ rest[Len(rest)] = -1 THEN <<-1>> ELSE <<d>> \o rest

\* the block structure of logical lines ll from line i on, under the stack
\* of open indentations.  The depths of the lines, or <<-1>> for a rejected
\* indentation.
RECURSIVE Blocks(_, _, _, _)
BlocksFrom(ll, i, st) ==
    IF st = <<>> THEN <<-1>>
    ELSE Cons(Len(st) - 1, Blocks(ll, i + 1, st, ll[i].stmt.header))

Blocks(ll, i, stack, expect) ==
    IF i > Len(ll) THEN (IF expect THEN <<-1>> ELSE <<>>)
    ELSE BlocksFrom(ll, i,
            Indent(stack, ll[i].col, ll[i].alt, expect,
                   Cardinality({k \in 1..Len(stack) : stack[k][1] <= ll[i].col})))

NoTree == [ok |-> FALSE, names |-> <<>>, attrs |-> <<>>, imports |-> <<>>]

\* the tree of logical lines ll at block depths depth
TreeOf(ll, depth) ==
    IF (\E i \in 1..Len(ll) : ~ll[i].stmt.ok) \/ (depth # <<>> /\ depth[Len(depth)] = -1)
    THEN NoTree
    ELSE [ok |-> TRUE,
          names |-> Flatten([i \in 1..Len(ll) |-> ll[i].stmt.names]),
          attrs |-> Flatten([i \in 1..Len(ll) |-> ll[i].stmt.attrs]),
          imports |-> Flatten([d \in 1..Len(ll) |->
                         Flatten([i \in 1..Len(ll) |->
                            IF depth[i] = d - 1 THEN ll[i].stmt.imports ELSE <<>>])])]

BlocksOf(ll) == TreeOf(ll, Blocks(ll, 1, <<<<0, 0>>>>, FALSE))

ast_parse(t) == BlocksOf(LogicalLines(t))

(***************************************************************************)
(* IdentifierCollector: the counters a visit of the tree fills.  A Counter *)
(* is a function from its keys to their counts.                            *)
(***************************************************************************)
Counter(s) == [n \in Range(s) |-> Count(s, n)]

IdentifierCollector(tree) ==
    [names |-> Counter(tree.names), attr_names |-> Counter(tree.attrs)]

(***************************************************************************)
(* difflib: SequenceMatcher and get_close_matches.  A ratio 2.0*M/T is the *)
(* pair <<2*M, T>>; the cutoff is in hundredths.                           *)
(***************************************************************************)
\* a[i..i+k-1] = b[j..j+k-1]
CommonAt(a, b, i, j, k) ==
    /\ i + k - 1 <= Len(a)
    /\ j + k - 1 <= Len(b)
    /\ \A d \in 0..(k - 1) : a[i + d] = b[j + d]

\* find_longest_match over all of a and b: <<i, j, k>>, the longest common
\* block, the one earliest in a and of those the one earliest in b
longest_of(blocks) ==
    IF blocks = {} THEN <<1, 1, 0>>
    ELSE CHOOSE t \in blocks : \A u \in blocks :
             \/ t[3] > u[3]
             \/ t[3] = u[3] /\ t[1] < u[1]
             \/ t[3] = u[3] /\ t[1] = u[1] /\ t[2] <= u[2]

find_longest_match(a, b) ==
    longest_of({t \in (1..Len(a)) \X (1..Len(b)) \X (1..Min(Len(a), Len(b))) :
                   CommonAt(a, b, t[1], t[2], t[3])})

\* the sum of the sizes of get_matching_blocks
RECURSIVE matching_size(_, _)
\* m is the longest match of a and b: its size and those to its left and right
matching_around(a, b, m) ==
    IF m[3] = 0 THEN 0
    ELSE m[3] + matching_size(Take(a, m[1] - 1), Take(b, m[2] - 1))
              + matching_size(Drop(a, m[1] + m[3] - 1), Drop(b, m[2] + m[3] - 1))

matching_size(a, b) ==
    IF a = <<>> \/ b = <<>> THEN 0
    ELSE matching_around(a, b, find_longest_match(a, b))

\* _calculate_ratio(matches, length)
calculate_ratio(matches, length) ==
    IF length > 0 THEN <<2 * matches, length>> ELSE <<1, 1>>

ratio(a, b) == calculate_ratio(matching_size(a, b), Len(a) + Len(b))

\* quick_ratio: the elements of a that b has, counted with multiplicity
quick_ratio(a, b) ==
    LET F[i \in 0..Len(a)] ==
            IF i = 0 THEN 0
            ELSE IF Count(Take(a, i), a[i]) <= Count(b, a[i]) THEN F[i - 1] + 1
                 ELSE F[i - 1]
    IN calculate_ratio(F[Len(a)], Len(a) + Len(b))

real_quick_ratio(a, b) == calculate_ratio(Min(Len(a), Len(b)), Len(a) + Len(b))

\* r >= cutoff/100
AtLeast(r, cutoff) == 100 * r[1] >= cutoff * r[2]

\* the similarity of two names as get_close_matches scores match x of word
Similarity(x, word) == ratio(Spell(x), Spell(word))

\* get_close_matches(word, possibilities, n, cutoff): the n best of the
\* possibilities scoring at least cutoff, best first (heapq.nlargest on
\* (score, x): equal scores in descending order of x)
\* (score[x], x) sorts before (score[y], y) in heapq.nlargest
Before(score, x, y) ==
    \/ score[x][1] * score[y][2] > score[y][1] * score[x][2]
    \/ score[x][1] * score[y][2] = score[y][1] * score[x][2] /\ StrLess(y, x)

\* the names of rank at most n, in the order of their ranks
ranked(rank, n) ==
    [k \in 1..Cardinality({x \in DOMAIN rank : rank[x] <= n}) |->
        CHOOSE x \in DOMAIN rank : rank[x] = k]

\* heapq.nlargest(n, result) for the scored possibilities
nlargest(n, score) ==
    ranked([x \in DOMAIN score |->
               1 + Cardinality({y \in DOMAIN score : Before(score, y, x)})], n)

\* the scored possibilities that reach the cutoff
at_cutoff(score, cutoff) ==
    [x \in {y \in DOMAIN score : AtLeast(score[y], cutoff)} |-> score[x]]

get_close_matches(word, possibilities, n, cutoff) ==
    nlargest(n,
        at_cutoff([x \in {y \in possibilities :
                            /\ AtLeast(real_quick_ratio(Spell(y), Spell(word)), cutoff)
                            /\ AtLeast(quick_ratio(Spell(y), Spell(word)), cutoff)} |->
                      Similarity(x, word)], cutoff))

(***************************************************************************)
(* detect_identifier_typos.                                                *)
(***************************************************************************)
\* the default of the threshold parameter, in hundredths
Threshold == 85

\* the n handed to get_close_matches
MaxMatches == 5

\* {**collector.names, **collector.attr_names}
all_counts(collector) ==
    [n \in DOMAIN collector.names \cup DOMAIN collector.attr_names |->
        IF n \in DOMAIN collector.attr_names THEN collector.attr_names[n]
        ELSE collector.names[n]]

\* proposes without the islower test of line 198
proposes_any_case(counts, name, m) ==
    /\ m # name
    /\ 2 * counts[m] > 3 * counts[name]
    /\ ~(Len(Spell(name)) <= 1 \/ Len(Spell(m)) <= 1)

\* the tests a match m of name passes before candidates[name] = m
proposes(counts, name, m) ==
    /\ m # name
    /\ 2 * counts[m] > 3 * counts[name]
    /\ ~(Len(Spell(name)) <= 1 \/ Len(Spell(m)) <= 1)
    /\ islower(name) /\ islower(m)

\* the matches of name, by their positions, that pass the tests
good_of(counts, name, matches) ==
    {k \in 1..Len(matches) : proposes(counts, name, matches[k])}

\* candidates[name] is assigned for every match that passes: the last stays
last_of(matches, good) == matches[CHOOSE k \in good : \A j \in good : j <= k]

\* the loop over uniq, matches[name] being the close matches of name
candidates_of(counts, matches) ==
    [name \in {x \in DOMAIN matches : good_of(counts, x, matches[x]) # {}} |->
        last_of(matches[name], good_of(counts, name, matches[name]))]

typos_of(counts, threshold) ==
    candidates_of(counts,
        [name \in DOMAIN counts |->
            get_close_matches(name, DOMAIN counts, MaxMatches, threshold)])

\* the dict of renames: the last match of a name that passes the tests
detect_identifier_typos(collector, threshold) ==
    typos_of(all_counts(collector), threshold)

(***************************************************************************)
(* detect_unused_imports.                                                  *)
(***************************************************************************)
\* detect_unused_imports that takes the attribute members for uses too
detect_unused_imports_attrs(tree) ==
    SelectIdx(tree.imports,
              {i \in 1..Len(tree.imports) :
                  tree.imports[i] \notin Range(tree.names) \cup Range(tree.attrs)})

\* the imported local names that are no Name node of the tree
detect_unused_imports(tree) ==
    SelectIdx(tree.imports,
              {i \in 1..Len(tree.imports) : tree.imports[i] \notin Range(tree.names)})

(***************************************************************************)
(* The two re.sub calls of the import removal, on tokens.  With            *)
(* re.MULTILINE ^ matches at the start of the text and after every "\n",   *)
(* $ before every "\n" and at the end; \s matches line boundaries too, "." *)
(* and [^\n] all but "\n"; \bname\b matches the word name.                 *)
(***************************************************************************)
\* ^: position p starts a line
LineStart(t, p) == p = 1 \/ t[p - 1] = "\n"

\* the first position at or after p that holds no white space (\s*)
WsEnd(t, p) == p + PrefixLen(Drop(t, p - 1), Space)

\* the last position of the line position p is on (.*$)
LineEndIdx(t, p) == p - 1 + PrefixLen(Drop(t, p - 1), {x \in Range(t) : x # "\n"})

\* import\s+.*\bname\b.*$ with "import" at position i: the end of the match, or 0
\* r is where the white space after the "import" at i ends
ImportTailAt(t, i, name, r) ==
    IF r > i + 1 /\ r <= Len(t) /\ name \in Range(SubSeq(t, r, LineEndIdx(t, r)))
    THEN LineEndIdx(t, r) ELSE 0

ImportTail(t, i, name) ==
    IF i > Len(t) \/ t[i] # "import" THEN 0
    ELSE ImportTailAt(t, i, name, WsEnd(t, i + 1))

\* ^\s*(import\s+.*\bname\b.*)$ from line start p: the end of the match, or 0
MatchImport(t, p, name) == ImportTail(t, WsEnd(t, p), name)

\* ^\s*(from\s+[^\n]+\s+import\s+.*\bname\b.*)$ from line start p: the end of
\* the match, or 0.  [^\n]+ and the \s+ after it are greedy: of the "import"
\* words that can follow them the last one is taken, which may stand on a
\* later line than "from"
\* position i is reached from "from" at q over \s+[^\n]+\s+
Reach(t, q, i) ==
    \E a \in (q + 2)..(i - 2) : \E b \in a..(i - 2) :
        /\ \A k \in (q + 1)..(a - 1) : t[k] \in Space
        /\ \A k \in a..b : t[k] # "\n"
        /\ \A k \in (b + 1)..(i - 1) : t[k] \in Space

\* the ends of the matches whose "import" is reached from "from" at q, by
\* the position of that "import"
FromTails(t, q, name) ==
    [i \in {j \in (q + 1)..Len(t) : Reach(t, q, j)} |-> ImportTail(t, i, name)]

\* the end of the match with the last "import" that has one, or 0
LastTail(tails) ==
    IF \A i \in DOMAIN tails : tails[i] = 0 THEN 0
    ELSE tails[CHOOSE i \in DOMAIN tails :
                  tails[i] # 0 /\ \A j \in DOMAIN tails : tails[j] # 0 => j <= i]

MatchFromAt(t, q, name) ==
    IF q > Len(t) \/ t[q] # "from" THEN 0 ELSE LastTail(FromTails(t, q, name))

MatchFromImport(t, p, name) == MatchFromAt(t, WsEnd(t, p), name)

\* re.sub(pattern, "", t, flags=re.MULTILINE) from position pos on, for the
\* pattern whose match from p ends at Match(p): the leftmost match is cut
\* out and the search goes on behind it
RECURSIVE re_sub(_, _, _)
\* the leftmost match from pos on starts at p
re_cut(ends, t, pos, p) == SubSeq(t, pos, p - 1) \o re_sub(ends, t, ends[p] + 1)

\* ends[p] is the end of the match that starts at p, or 0
re_sub(ends, t, pos) ==
    IF \A p \in pos..Len(t) : ends[p] = 0 THEN Drop(t, pos - 1)
    ELSE re_cut(ends, t, pos,
                CHOOSE p \in pos..Len(t) : ends[p] # 0 /\ \A x \in pos..(p - 1) : ends[x] = 0)

\* line 414
remove_from_import(t, name) ==
    re_sub([p \in 1..Len(t) |-> IF LineStart(t, p) THEN MatchFromImport(t, p, name) ELSE 0],
           t, 1)

\* line 415
remove_import(t, name) ==
    re_sub([p \in 1..Len(t) |-> IF LineStart(t, p) THEN MatchImport(t, p, name) ELSE 0],
           t, 1)

\* the loop over the unused names: both patterns, one name after the other
RECURSIVE remove_imports(_, _)
remove_imports(t, unused) ==
    IF unused = <<>> THEN t
    ELSE remove_imports(remove_import(remove_from_import(t, Head(unused)), Head(unused)),
                        Tail(unused))

(***************************************************************************)
(* apply_renames_with_libcst: cst.parse_module raises on text that is not  *)
(* a program; the Renamer renames every Name node, which in libcst's tree  *)
(* is every identifier of the text, and leaves all other text as it is.    *)
(***************************************************************************)
\* does cst.parse_module(source) raise?
libcst_raises(source) == ~ast_parse(source).ok

\* new_mod.code
libcst_rename(source, renames) ==
    [i \in 1..Len(source) |->
        IF source[i] \in DOMAIN renames THEN renames[source[i]] ELSE source[i]]

(***************************************************************************)
(* black.format_file_contents, the external formatter: it raises on text   *)
(* it cannot parse and when it has nothing to change (NothingChanged), and *)
(* as an external call it may fail on any input.                           *)
(***************************************************************************)
\* spaces per level of an indentation black writes
BlackIndent == 4

\* line i of lines is blank
IsBlank(lines, i) == \A j \in 1..Len(lines[i]) : lines[i][j] \in Space

\* the words of a statement with black's spacing
Render(words) ==
    Flatten([k \in 1..Len(words) |->
                IF k > 1 /\ words[k] \notin {":", ",", "."} /\ words[k - 1] # "."
                THEN <<" ", words[k]>> ELSE <<words[k]>>])

\* line i as black writes it: nth is the number of the logical line it is;
\* blank lines stay between statements only
black_line(lines, depth, i, nth) ==
    IF IsBlank(lines, i)
    THEN IF nth = 0 \/ nth = Len(depth) THEN <<>> ELSE <<"\n">>
    ELSE Repeat(" ", BlackIndent * depth[nth])
         \o Render(SelectIdx(lines[i], {j \in 1..Len(lines[i]) : lines[i][j] \notin Space}))
         \o <<"\n">>

black_lines(lines, depth) ==
    Flatten([i \in 1..Len(lines) |->
                black_line(lines, depth, i,
                           Cardinality({j \in 1..i : ~IsBlank(lines, j)}))])

\* the text black makes of a program: every line indented by its depth,
\* trailing white space gone, a final line boundary
black_format(src) ==
    black_lines(splitlines(src), Blocks(LogicalLines(src), 1, <<<<0, 0>>>>, FALSE))

\* format_file_contents: the text, or a raise on NothingChanged
black_changed(src, dst) ==
    IF dst # src THEN {[ok |-> TRUE, text |-> dst]} ELSE {}

\* what a call of black can do: raise (ok FALSE), or return a changed text
black_outcomes(src) ==
    {[ok |-> FALSE, text |-> src]}
    \cup (IF ast_parse(src).ok THEN black_changed(src, black_format(src)) ELSE {})

(***************************************************************************)
(* The state.                                                              *)
(***************************************************************************)
VARIABLES
    args,         \* the parsed command line: fix, strict, report
    HAVE_BLACK,   \* the external formatter could be imported
    HAVE_LIBCST,  \* the structural rewriter could be imported
    disk0,        \* the content of every input file before the run
    disk,         \* the content of every input file now
    idx,          \* main's loop: the file process_file works on
    pc,           \* the position of the run
    original,     \* process_file: the text read
    text,         \* process_file: the working text
    tree,         \* process_file: the syntax tree of the text parsed
    result,       \* process_file: the result being filled
    results,      \* main: the results collected
    exit_code,    \* the exit status of the process, -1 while it runs
    wbuf,         \* write_file: what is still in the writer's buffer
    observed,     \* what a concurrent reader of the file last read
    collector,    \* detect_identifier_typos: its argument
    candidates,   \* detect_identifier_typos: its return value
    norm          \* normalize_whitespace: what its calls returned, in order

vars == <<args, HAVE_BLACK, HAVE_LIBCST, disk0, disk, idx, pc, original, text,
          tree, result, results, exit_code, wbuf, observed, collector, candidates,
          norm>>

NoRenames == [n \in {} |-> ""]

NoCollector == [names |-> [n \in {} |-> 0], attr_names |-> [n \in {} |-> 0]]

\* the result dict process_file starts from
EmptyResult ==
    [formatted |-> FALSE, format_messages |-> <<>>, lint_messages |-> <<>>,
     renames_suggested |-> NoRenames, renames_applied |-> NoRenames,
     unused_imports |-> <<>>, errors |-> <<>>]

(***************************************************************************)
(* The inputs: files made of the lines of a pool.                          *)
(***************************************************************************)
LinePool ==
    {<<"import", " ", "os">>,
     <<" ", " ", " ", " ", "import", " ", "os">>,
     <<"if", " ", "val", ":">>,
     <<"val", "=", "val", ".", "vals">>,
     <<"\t", "val">>,
     <<" ", " ", " ", " ", "val">>,
     <<"os", ".", "val">>,
     <<"(">>,
     <<"val", " ">>}

BatchLinePool ==
    {<<"import", " ", "os">>,
     <<"if", " ", "val", ":">>,
     <<"\t", " ", "val">>,
     <<"(">>}

\* the texts of exactly n lines of a pool, every line ended by "\n"
RECURSIVE TextsOf(_, _)
TextsOf(pool, n) ==
    IF n = 0 THEN {<<>>}
    ELSE {t \o ln \o <<"\n">> : t \in TextsOf(pool, n - 1), ln \in pool}

\* the same bytes with every line ended by "\r\n"
CrLf(t) == Flatten([i \in 1..Len(t) |-> IF t[i] = "\n" THEN <<"\r", "\n">> ELSE <<t[i]>>])

\* the files process_file is run on: up to maxLines lines
Files(maxLines) == UNION {TextsOf(LinePool, n) : n \in 0..maxLines}

\* the batches main is run on: up to MaxFiles files of MaxBatchLines lines
\* together
RECURSIVE Batches(_, _)
Batches(nfiles, nlines) ==
    IF nfiles = 0 THEN {<<>>}
    ELSE {<<>>} \cup
         UNION {{<<t>> \o b : t \in TextsOf(BatchLinePool, k),
                              b \in Batches(nfiles - 1, nlines - k) \ {<<>>}}
                \cup {<<t>> : t \in TextsOf(BatchLinePool, k)} : k \in 0..nlines}

Reports == {"text", "json"}

(***************************************************************************)
(* process_file.                                                           *)
(***************************************************************************)
\* lines 348-373: read the file, lint its white space
PF_Lint ==
    /\ pc = "pf_start"
    /\ \E t \in {read_file(disk[idx])} :
          /\ original' = t
          /\ text' = t
          /\ result' = [EmptyResult EXCEPT !.lint_messages = whitespace_lint(t)]
    /\ tree' = NoTree
    /\ collector' = NoCollector
    /\ candidates' = NoRenames
    /\ pc' = "pf_format"
    /\ UNCHANGED <<norm, args, HAVE_BLACK, HAVE_LIBCST, disk0, disk, idx, results,
                   exit_code, wbuf, observed>>

\* lines 377-385: [text, result] after the call of black did o
format_black(orig, res, o) ==
    IF o.ok THEN
        IF o.text # orig
        THEN [text |-> o.text,
              result |-> [res EXCEPT !.formatted = TRUE,
                  !.format_messages = Append(@, Msg("Formatted with black", 0))]]
        ELSE [text |-> orig, result |-> res]
    ELSE [text |-> orig,
          result |-> [res EXCEPT
              !.format_messages = Append(@, Msg("Black failed", 0))]]

\* lines 388-392: [text, result] after normalize_whitespace returned n
format_fallback(orig, res, n) ==
    IF n.msgs # <<>>
    THEN [text |-> n.text,
          result |-> [res EXCEPT !.formatted = TRUE,
                                 !.format_messages = @ \o n.msgs]]
    ELSE [text |-> orig, result |-> res]

\* lines 375-392: [text, result] after the formatting step, o being what the
\* call of black does
format_step(fix, have_black, orig, res, o) ==
    IF fix /\ have_black THEN format_black(orig, res, o)
    ELSE IF fix THEN format_fallback(orig, res, normalize_whitespace(orig))
    ELSE [text |-> orig, result |-> res]

PF_Format ==
    /\ pc = "pf_format"
    /\ \E o \in black_outcomes(original) :
          \E s \in {format_step(args.fix, HAVE_BLACK, original, result, o)} :
              text' = s.text /\ result' = s.result
    /\ pc' = "pf_parse"
    /\ UNCHANGED <<norm, args, HAVE_BLACK, HAVE_LIBCST, disk0, disk, idx, original, tree,
                   results, exit_code, wbuf, observed, collector, candidates>>

\* parse_step without the return of line 399
parse_step_no_return(tr, res) ==
    [pc |-> "pf_imports",
     result |-> IF tr.ok THEN res
                ELSE [res EXCEPT !.errors = Append(@, Msg("AST parse error", 0))]]

\* lines 394-399: a text that does not parse ends process_file, tr being
\* what ast.parse made of the text
parse_step(tr, res) ==
    IF tr.ok
    THEN [pc |-> "pf_imports", result |-> res]
    ELSE [pc |-> "pf_return",
          result |-> [res EXCEPT !.errors = Append(@, Msg("AST parse error", 0))]]

\* lines 394-402: parse the text and visit the tree
PF_Parse ==
    /\ pc = "pf_parse"
    /\ \E tr \in {ast_parse(text)} :
          /\ tree' = tr
          /\ collector' = IdentifierCollector(tr)
          /\ \E s \in {parse_step(tr, result)} : result' = s.result /\ pc' = s.pc
    /\ UNCHANGED <<norm, args, HAVE_BLACK, HAVE_LIBCST, disk0, disk, idx, original, text,
                   results, exit_code, wbuf, observed, candidates>>

\* lines 406-407
imports_found(res, unused) ==
    IF unused # <<>> THEN [res EXCEPT !.unused_imports = unused] ELSE res

\* lines 416-418
imports_removed(t, res, new_text) ==
    IF new_text # t
    THEN [text |-> new_text,
          result |-> [res EXCEPT !.format_messages =
                         Append(@, Msg("Removed unused import(s)", 0))]]
    ELSE [text |-> t, result |-> res]

\* lines 406-418
imports_fix(fix, t, res, unused) ==
    IF unused # <<>> /\ fix
    THEN imports_removed(t, imports_found(res, unused), remove_imports(t, unused))
    ELSE [text |-> t, result |-> imports_found(res, unused)]

\* lines 404-418: [text, result] after the unused imports are found and, in
\* fix mode, cut out
imports_step(fix, t, tr, res) == imports_fix(fix, t, res, detect_unused_imports(tr))

PF_Imports ==
    /\ pc = "pf_imports"
    /\ \E s \in {imports_step(args.fix, text, tree, result)} :
          text' = s.text /\ result' = s.result
    /\ pc' = "pf_renames"
    /\ UNCHANGED <<norm, args, HAVE_BLACK, HAVE_LIBCST, disk0, disk, idx, original, tree,
                   results, exit_code, wbuf, observed, collector, candidates>>

\* lines 426-435
renames_apply(have_libcst, t, res, typos) ==
    IF have_libcst THEN
        IF libcst_raises(t)
        THEN [text |-> t,
              result |-> [res EXCEPT !.errors =
                             Append(@, Msg("libcst rename failed", 0))]]
        ELSE [text |-> libcst_rename(t, typos),
              result |-> [res EXCEPT !.renames_applied = typos,
                             !.format_messages =
                                 Append(@, Msg("Applied identifier rename(s)", 0))]]
    ELSE [text |-> t,
          result |-> [res EXCEPT !.lint_messages =
                         Append(@, Msg("libcst not installed", 0))]]

\* lines 422-435: [text, result] once the typos are found
renames_step(fix, have_libcst, t, res, typos) ==
    IF fix /\ DOMAIN typos # {}
    THEN renames_apply(have_libcst, t, [res EXCEPT !.renames_suggested = typos], typos)
    ELSE [text |-> t, result |-> [res EXCEPT !.renames_suggested = typos]]

\* lines 420-435: find the typos and, in fix mode with libcst, rename
PF_Renames ==
    /\ pc = "pf_renames"
    /\ \E typos \in {detect_identifier_typos(collector, Threshold)} :
          /\ candidates' = typos
          /\ \E s \in {renames_step(args.fix, HAVE_LIBCST, text, result, typos)} :
                text' = s.text /\ result' = s.result
    /\ pc' = "pf_final"
    /\ UNCHANGED <<norm, args, HAVE_BLACK, HAVE_LIBCST, disk0, disk, idx, original, tree,
                   results, exit_code, wbuf, observed, collector>>

\* lines 437-446: [text, result] after the final pass of black, o being what
\* the call does
final_step(fix, have_black, t, res, o) ==
    IF fix /\ have_black THEN
        IF o.ok THEN
            IF o.text # t
            THEN [text |-> o.text,
                  result |-> [res EXCEPT !.formatted = TRUE,
                      !.format_messages = Append(@, Msg("Final pass: formatted with black", 0))]]
            ELSE [text |-> t, result |-> res]
        ELSE [text |-> t,
              result |-> [res EXCEPT !.format_messages =
                             Append(@, Msg("Black final pass failed", 0))]]
    ELSE [text |-> t, result |-> res]

PF_Final ==
    /\ pc = "pf_final"
    /\ \E o \in black_outcomes(text) :
          \E s \in {final_step(args.fix, HAVE_BLACK, text, result, o)} :
              text' = s.text /\ result' = s.result
    /\ pc' = "pf_write"
    /\ UNCHANGED <<norm, args, HAVE_BLACK, HAVE_LIBCST, disk0, disk, idx, original, tree,
                   results, exit_code, wbuf, observed, collector, candidates>>

\* writes_back without any test
writes_back_always(fix, t, orig) == TRUE

\* writes_back without the comparison with the original
writes_back_unchanged(fix, t, orig) == fix

\* line 449: is the text written back?
writes_back(fix, t, orig) == fix /\ t # orig

\* lines 448-452
PF_Write ==
    /\ pc = "pf_write"
    /\ pc' = IF writes_back(args.fix, text, original) THEN "w_open" ELSE "pf_return"
    /\ UNCHANGED <<norm, args, HAVE_BLACK, HAVE_LIBCST, disk0, disk, idx, original, text,
                   tree, result, results, exit_code, wbuf, observed, collector,
                   candidates>>

(***************************************************************************)
(* write_file: open(path, "w") empties the file; the text goes through the *)
(* writer's buffer to the file, at most BufferSize tokens at once; leaving *)
(* the with block closes the file.                                         *)
(***************************************************************************)
W_Open ==
    /\ pc = "w_open"
    /\ disk' = [disk EXCEPT ![idx] = <<>>]
    /\ wbuf' = write_bytes(text)
    /\ pc' = "w_write"
    /\ UNCHANGED <<norm, args, HAVE_BLACK, HAVE_LIBCST, disk0, idx, original, text, tree,
                   result, results, exit_code, observed, collector, candidates>>

W_Flush ==
    /\ pc = "w_write"
    /\ wbuf # <<>>
    /\ disk' = [disk EXCEPT ![idx] = @ \o Take(wbuf, Min(BufferSize, Len(wbuf)))]
    /\ wbuf' = Drop(wbuf, Min(BufferSize, Len(wbuf)))
    /\ UNCHANGED <<norm, args, HAVE_BLACK, HAVE_LIBCST, disk0, idx, pc, original, text,
                   tree, result, results, exit_code, observed, collector, candidates>>

W_Close ==
    /\ pc = "w_write"
    /\ wbuf = <<>>
    /\ pc' = "pf_return"
    /\ UNCHANGED <<norm, args, HAVE_BLACK, HAVE_LIBCST, disk0, disk, idx, original, text,
                   tree, result, results, exit_code, wbuf, observed, collector,
                   candidates>>

\* another process reads the file process_file works on
Reader ==
    /\ pc \in {"pf_start", "pf_format", "pf_parse", "pf_imports", "pf_renames",
               "pf_final", "pf_write", "w_open", "w_write", "pf_return"}
    /\ observed' = disk[idx]
    /\ UNCHANGED <<norm, args, HAVE_BLACK, HAVE_LIBCST, disk0, disk, idx, pc, original,
                   text, tree, result, results, exit_code, wbuf, collector,
                   candidates>>

ProcessFile ==
    \/ PF_Lint \/ PF_Format \/ PF_Parse \/ PF_Imports \/ PF_Renames \/ PF_Final
    \/ PF_Write \/ W_Open \/ W_Flush \/ W_Close

(***************************************************************************)
(* main.                                                                   *)
(***************************************************************************)
\* lines 482-486: no file found ends the process with status 1
Main_Start ==
    /\ pc = "main"
    /\ IF Len(disk) = 0
       THEN exit_code' = 1 /\ pc' = "exit" /\ idx' = idx
       ELSE exit_code' = exit_code /\ pc' = "pf_start" /\ idx' = 1
    /\ UNCHANGED <<norm, args, HAVE_BLACK, HAVE_LIBCST, disk0, disk, original, text, tree,
                   result, results, wbuf, observed, collector, candidates>>

\* lines 489-491: the loop over the files
Main_Collect ==
    /\ pc = "pf_return"
    /\ results' = Append(results, result)
    /\ IF idx < Len(disk)
       THEN idx' = idx + 1 /\ pc' = "pf_start"
       ELSE idx' = idx /\ pc' = "report"
    /\ UNCHANGED <<norm, args, HAVE_BLACK, HAVE_LIBCST, disk0, disk, original, text, tree,
                   result, exit_code, wbuf, observed, collector, candidates>>

\* lines 511-521: the warnings the text report counts
total_warnings(rs) ==
    LET F[i \in 0..Len(rs)] ==
            IF i = 0 THEN 0 ELSE F[i - 1] + Len(rs[i].lint_messages)
    IN F[Len(rs)]

\* lines 507-548: the status main ends with after the report
exit_status(a, rs) ==
    IF a.report = "json" THEN 0
    ELSE IF a.strict /\ total_warnings(rs) > 0 THEN 2 ELSE 0

Main_Report ==
    /\ pc = "report"
    /\ exit_code' = exit_status(args, results)
    /\ pc' = "exit"
    /\ UNCHANGED <<norm, args, HAVE_BLACK, HAVE_LIBCST, disk0, disk, idx, original, text,
                   tree, result, results, wbuf, observed, collector, candidates>>

(***************************************************************************)
(* Spec: process_file on one file, beside a reader of that file.           *)
(***************************************************************************)
Init ==
    /\ args \in [fix : BOOLEAN, strict : {FALSE}, report : {"text"}]
    /\ HAVE_BLACK \in BOOLEAN
    /\ HAVE_LIBCST \in BOOLEAN
    /\ \E t \in Files(MaxLines) : disk0 \in {<<t>>, <<CrLf(t)>>}
    /\ disk = disk0
    /\ idx = 1
    /\ pc = "pf_start"
    /\ original = <<>>
    /\ text = <<>>
    /\ tree = NoTree
    /\ result = EmptyResult
    /\ results = <<>>
    /\ exit_code = -1
    /\ wbuf = <<>>
    /\ observed = disk0[1]
    /\ collector = NoCollector
    /\ candidates = NoRenames
    /\ norm = <<>>

Next == ProcessFile \/ Reader

Spec == Init /\ [][Next]_vars

(***************************************************************************)
(* SpecMain: main on a batch of files.                                     *)
(***************************************************************************)
InitMain ==
    /\ args \in [fix : BOOLEAN, strict : BOOLEAN, report : Reports]
    /\ HAVE_BLACK \in BOOLEAN
    /\ HAVE_LIBCST \in BOOLEAN
    /\ disk0 \in Batches(MaxFiles, MaxBatchLines)
    /\ disk = disk0
    /\ idx = 0
    /\ pc = "main"
    /\ original = <<>>
    /\ text = <<>>
    /\ tree = NoTree
    /\ result = EmptyResult
    /\ results = <<>>
    /\ exit_code = -1
    /\ wbuf = <<>>
    /\ observed = <<>>
    /\ collector = NoCollector
    /\ candidates = NoRenames
    /\ norm = <<>>

NextMain == Main_Start \/ ProcessFile \/ Main_Collect \/ Main_Report

SpecMain == InitMain /\ [][NextMain]_vars

(***************************************************************************)
(* SpecTypos: detect_identifier_typos on the counters of a collector: up   *)
(* to MaxIdents identifiers, each counted up to MaxCount times as a plain  *)
(* name and as an attribute member.                                        *)
(***************************************************************************)
\* the identifiers the collectors count
TypoPool == {"v", "val", "vals", "valS", "Val", "Vals"}

\* a Counter holds the keys it counted at least once
Positive(f) == [n \in {m \in DOMAIN f : f[m] > 0} |-> f[n]]

\* the collector of a visit that counted the identifiers as plain names and
\* as attribute members as plain and attr say
Collector(plain, attr) == [names |-> Positive(plain), attr_names |-> Positive(attr)]

InitTypos ==
    /\ args = [fix |-> FALSE, strict |-> FALSE, report |-> "text"]
    /\ HAVE_BLACK = FALSE
    /\ HAVE_LIBCST = FALSE
    /\ disk0 = <<>>
    /\ disk = <<>>
    /\ idx = 0
    /\ pc = "typos"
    /\ original = <<>>
    /\ text = <<>>
    /\ tree = NoTree
    /\ result = EmptyResult
    /\ results = <<>>
    /\ exit_code = -1
    /\ wbuf = <<>>
    /\ observed = <<>>
    /\ \E S \in {T \in SUBSET TypoPool : Cardinality(T) <= MaxIdents} :
          \E plain \in [S -> 0..MaxCount], attr \in [S -> 0..MaxCount] :
              collector = Collector(plain, attr)
    /\ candidates = NoRenames
    /\ norm = <<>>

\* line 422: typos = detect_identifier_typos(collector)
Typos_Run ==
    /\ pc = "typos"
    /\ candidates' = detect_identifier_typos(collector, Threshold)
    /\ pc' = "typos_done"
    /\ UNCHANGED <<norm, args, HAVE_BLACK, HAVE_LIBCST, disk0, disk, idx, original, text,
                   tree, result, results, exit_code, wbuf, observed, collector>>

NextTypos == Typos_Run

SpecTypos == InitTypos /\ [][NextTypos]_vars

(***************************************************************************)
(* SpecNormalize: normalize_whitespace on a text of up to MaxTokens        *)
(* tokens, and again on the text it returned.                              *)
(***************************************************************************)
\* the tokens of the texts
NormTokens == {"\t", " ", "val", "\n", "\r"}

\* the texts of up to n tokens
NormTexts(n) == UNION {[1..k -> NormTokens] : k \in 0..n}

InitNormalize ==
    /\ args = [fix |-> TRUE, strict |-> FALSE, report |-> "text"]
    /\ HAVE_BLACK = FALSE
    /\ HAVE_LIBCST = FALSE
    /\ disk0 = <<>>
    /\ disk = <<>>
    /\ idx = 0
    /\ pc = "normalize"
    /\ original \in NormTexts(MaxTokens)
    /\ text = original
    /\ tree = NoTree
    /\ result = EmptyResult
    /\ results = <<>>
    /\ exit_code = -1
    /\ wbuf = <<>>
    /\ observed = <<>>
    /\ collector = NoCollector
    /\ candidates = NoRenames
    /\ norm = <<>>

\* line 388: new_text, msgs = normalize_whitespace(text)
Normalize_Run ==
    /\ pc = "normalize"
    /\ Len(norm) < MaxPasses
    /\ \E n \in {normalize_whitespace(text)} :
          /\ norm' = Append(norm, n)
          /\ text' = n.text
    /\ UNCHANGED <<args, HAVE_BLACK, HAVE_LIBCST, disk0, disk, idx, pc, original,
                   tree, result, results, exit_code, wbuf, observed, collector,
                   candidates>>

NextNormalize == Normalize_Run

SpecNormalize == InitNormalize /\ [][NextNormalize]_vars

(***************************************************************************)
(* SpecImports: process_file on a file of import statements and uses of    *)
(* names.                                                                  *)
(***************************************************************************)
ImportLinePool ==
    {<<"import", " ", "os">>,
     <<"import", " ", "os", ".", "val">>,
     <<"import", " ", "os", " ", "as", " ", "val">>,
     <<"from", " ", "os", " ", "import", " ", "val">>,
     <<"from", " ", "os", " ", "import", " ", "val", " ", "as", " ", "vals">>,
     <<"from", " ", "os", " ", "import", " ", "*">>,
     <<"import", " ", "os", ",", " ", "val">>,
     <<"os", ".", "val">>,
     <<"val">>}

\* the files of up to maxLines lines
ImportFiles(maxLines) == UNION {TextsOf(ImportLinePool, n) : n \in 0..maxLines}

InitImports ==
    /\ args \in [fix : BOOLEAN, strict : {FALSE}, report : {"text"}]
    /\ HAVE_BLACK \in BOOLEAN
    /\ HAVE_LIBCST \in BOOLEAN
    /\ \E t \in ImportFiles(MaxImportLines) : disk0 = <<t>>
    /\ disk = disk0
    /\ idx = 1
    /\ pc = "pf_start"
    /\ original = <<>>
    /\ text = <<>>
    /\ tree = NoTree
    /\ result = EmptyResult
    /\ results = <<>>
    /\ exit_code = -1
    /\ wbuf = <<>>
    /\ observed = disk0[1]
    /\ collector = NoCollector
    /\ candidates = NoRenames
    /\ norm = <<>>

NextImports == ProcessFile

SpecImports == InitImports /\ [][NextImports]_vars

(***************************************************************************)
(* SpecLint: process_file on a file of lines indented in several ways.     *)
(***************************************************************************)
LintLinePool ==
    {<<"val">>,
     <<"if", " ", "val", ":">>,
     <<"\t", "val">>,
     <<"\t", " ", "val">>,
     <<" ", " ", "val">>,
     <<" ", " ", " ", " ", "val">>}

\* the files of up to maxLines lines
LintFiles(maxLines) == UNION {TextsOf(LintLinePool, n) : n \in 0..maxLines}

InitLint ==
    /\ args \in [fix : BOOLEAN, strict : {FALSE}, report : {"text"}]
    /\ HAVE_BLACK \in BOOLEAN
    /\ HAVE_LIBCST \in BOOLEAN
    /\ \E t \in LintFiles(MaxLintLines) : disk0 = <<t>>
    /\ disk = disk0
    /\ idx = 1
    /\ pc = "pf_start"
    /\ original = <<>>
    /\ text = <<>>
    /\ tree = NoTree
    /\ result = EmptyResult
    /\ results = <<>>
    /\ exit_code = -1
    /\ wbuf = <<>>
    /\ observed = disk0[1]
    /\ collector = NoCollector
    /\ candidates = NoRenames
    /\ norm = <<>>

NextLint == ProcessFile

SpecLint == InitLint /\ [][NextLint]_vars

(***************************************************************************)
(* Properties.                                                             *)
(***************************************************************************)
ParseError == Msg("AST parse error", 0)

\* the stages after the parse changed the text by a rename or an import removal
Rewritten ==
    \/ DOMAIN result.renames_applied # {}
    \/ Msg("Removed unused import(s)", 0) \in Range(result.format_messages)

\* C1: in fix mode, when the text process_file made by renames and import
\* removals does not parse again, the edit is rejected: the file on disk
\* after the run is what it was before the run.
C1_RejectedEditKeepsFile ==
    (pc = "pf_return" /\ args.fix /\ tree.ok /\ Rewritten /\ ~ast_parse(text).ok)
        => disk[idx] = disk0[idx]

\* C2: in analyze-only mode process_file never writes: the file on disk is
\* at every moment what it was before the run, whatever the optional tools;
\* the lint messages, the rename suggestions and the unused imports are
\* reported all the same.
C2_AnalyzeOnlyNeverWrites ==
    ~args.fix =>
        /\ disk = disk0
        /\ pc \notin {"w_open", "w_write"}
        /\ (pc = "pf_return" /\ tree.ok) =>
              /\ result.lint_messages = whitespace_lint(original)
              /\ result.unused_imports = detect_unused_imports(tree)
              /\ result.renames_suggested =
                     detect_identifier_typos(IdentifierCollector(tree), Threshold)

\* an analyze-only run that ended with unused imports and renames to report
C2_AnalyzeOnlyReports ==
    /\ ~args.fix
    /\ pc = "pf_return"
    /\ result.unused_imports # <<>>
    /\ DOMAIN result.renames_suggested # {}
    /\ Len(disk0[idx]) > 0

\* C3: without libcst, also in fix mode, neither the removal of the unused
\* imports nor the renames change the working text.
C3_SuggestOnlyWithoutLibcst ==
    [][(~HAVE_LIBCST /\ pc \in {"pf_imports", "pf_renames"}) => text' = text]_vars

\* C4: when the text of a file does not parse, process_file records exactly
\* one parse error and stops: no rename suggested or applied, no unused
\* import, no write of that file; and main goes on to every other file.
C4_ParseErrorStopsFile ==
    /\ (pc = "pf_return" /\ ~tree.ok) =>
          /\ result.errors = <<ParseError>>
          /\ disk[idx] = disk0[idx]
    /\ \A r \in Range(IF pc = "pf_return" THEN Append(results, result) ELSE results) :
          ParseError \in Range(r.errors) =>
              /\ r.errors = <<ParseError>>
              /\ DOMAIN r.renames_suggested = {}
              /\ DOMAIN r.renames_applied = {}
              /\ r.unused_imports = <<>>
    /\ (pc = "report" \/ (pc = "exit" /\ Len(disk0) > 0)) => Len(results) = Len(disk0)

\* a batch whose first file did not parse and whose second file was analysed
C4_ParseErrorThenNextFile ==
    /\ pc = "report"
    /\ Len(results) = 2
    /\ results[1].errors = <<ParseError>>
    /\ results[2].errors = <<>>
    /\ results[2].unused_imports # <<>>

\* no line of t ends with a blank
NoTrailingWhitespace(t) ==
    \A i \in 1..Len(splitlines(t)) :
        splitlines(t)[i] = <<>> \/ splitlines(t)[i][Len(splitlines(t)[i])] \notin Blank

\* a file that parses, without trailing white space, tabs and typo candidates
CleanFile(t) ==
    /\ "\t" \notin Range(t)
    /\ NoTrailingWhitespace(t)
    /\ ast_parse(t).ok
    /\ DOMAIN detect_identifier_typos(IdentifierCollector(ast_parse(t)), Threshold) = {}

\* C5 as stated: fix mode leaves every clean file as it is on disk, unused
\* imports or not.
C5_NoOpOnCleanFile ==
    disk = disk0 \/ ~(args.fix /\ CleanFile(read_file(disk0[idx])))

\* C5, amended: fix mode leaves a clean file as it is on disk when none of
\* its imports is unused and black, where installed, has nothing to change
\* in it.
C5_NoOpWithoutUnusedImports ==
    \/ disk = disk0
    \/ ~(/\ args.fix
         /\ CleanFile(read_file(disk0[idx]))
         /\ detect_unused_imports(ast_parse(read_file(disk0[idx]))) = <<>>
         /\ HAVE_BLACK => \A o \in black_outcomes(read_file(disk0[idx])) : ~o.ok)

\* a fix run that ended on a clean file with a used import
C5_CleanFileProcessed ==
    /\ args.fix
    /\ pc = "pf_return"
    /\ CleanFile(original)
    /\ tree.imports # <<>>
    /\ detect_unused_imports(tree) = <<>>
    /\ HAVE_BLACK => \A o \in black_outcomes(original) : ~o.ok
    /\ disk = disk0

\* C6: in fix mode with black installed, when the call of black fails the
\* fallback normalizer is run on the text.
C6_FormatterFailureFallsBack ==
    (/\ pc = "pf_parse"
     /\ args.fix
     /\ HAVE_BLACK
     /\ Msg("Black failed", 0) \in Range(result.format_messages))
        => /\ text = normalize_whitespace(original).text
           /\ \A m \in Range(normalize_whitespace(original).msgs) :
                  m \in Range(result.format_messages)

\* C7: main ends with 1 when there is no file, with 2 in strict mode when a
\* lint warning was emitted, whatever the report format, and with 0
\* otherwise.
C7_ExitCode ==
    pc = "exit" =>
        exit_code = IF Len(disk0) = 0 THEN 1
                    ELSE IF args.strict /\ total_warnings(results) > 0 THEN 2
                    ELSE 0

\* C8: a reader of the file sees the whole original content or the whole
\* text written back, never an empty or half written file.
C8_AllOrNothingWrite ==
    \/ observed = disk0[idx]
    \/ pc \in {"w_write", "pf_return"} /\ observed = write_bytes(text)

\* C9: every proposal of detect_identifier_typos is between two different
\* names, each of two characters or more, each all lowercase, that are
\* similar to a ratio of 0.85 or more.
C9_ProposalsWellFormed ==
    \A n \in DOMAIN candidates :
        /\ n # candidates[n]
        /\ Len(Spell(n)) >= 2 /\ Len(Spell(candidates[n])) >= 2
        /\ islower(n) /\ islower(candidates[n])
        /\ AtLeast(Similarity(candidates[n], n), Threshold)

\* a run of detect_identifier_typos that proposed a rename
C9_SomeProposal ==
    /\ pc = "typos_done"
    /\ DOMAIN candidates # {}

\* the occurrences of a name as a plain name and as an attribute member
pooled_count(c, n) ==
    (IF n \in DOMAIN c.names THEN c.names[n] ELSE 0)
    + (IF n \in DOMAIN c.attr_names THEN c.attr_names[n] ELSE 0)

\* C10: a -> b is proposed only when count(b) > 1.5 * count(a), count being
\* the pooled count of the name: plain occurrences plus attribute ones.
C10_PooledMargin ==
    \A n \in DOMAIN candidates :
        2 * pooled_count(collector, candidates[n]) > 3 * pooled_count(collector, n)

\* C11: normalize_whitespace is idempotent on the text: run on the text it
\* returned, it returns that text again.
C11_NormalizeIdempotent ==
    Len(norm) = MaxPasses => norm[MaxPasses].text = norm[1].text

\* two calls in a row, the first of which made spaces of leading tabs
C11_NormalizedTwice ==
    /\ pc = "normalize"
    /\ Len(norm) = MaxPasses
    /\ norm[1].text # original
    /\ norm[1].msgs # <<>>

\* line i of t ends with a blank
EndsBlank(t, i) ==
    splitlines(t)[i] # <<>> /\ splitlines(t)[i][Len(splitlines(t)[i])] \in Blank

\* C12: no line of the text normalize_whitespace returns ends with a space
\* or a tab, and a "trailing whitespace removed" message is recorded for
\* the lines of the input that ended with one, and for no other.
C12_TrailingWhitespaceStripped ==
    Len(norm) >= 1 =>
        /\ NoTrailingWhitespace(norm[1].text)
        /\ \A i \in 1..Len(splitlines(original)) :
              Msg("trailing whitespace removed", i) \in Range(norm[1].msgs)
                  <=> EndsBlank(original, i)

\* the words of a line
WordsOf(ln) == SelectIdx(ln, {j \in 1..Len(ln) : ln[j] \notin Space})

\* the local names the statement of words w binds by import: the alias,
\* else the bare name or the first segment of a dotted name; none for *
Binds(w) ==
    CASE w = <<"import", "os">> -> {"os"}
      [] w = <<"import", "os", ".", "val">> -> {"os"}
      [] w = <<"import", "os", "as", "val">> -> {"val"}
      [] w = <<"from", "os", "import", "val">> -> {"val"}
      [] w = <<"from", "os", "import", "val", "as", "vals">> -> {"vals"}
      [] w = <<"import", "os", ",", "val">> -> {"os", "val"}
      [] OTHER -> {}

\* the plain names the statement of words w refers to
Refers(w) ==
    CASE w = <<"os", ".", "val">> -> {"os"}
      [] w = <<"val">> -> {"val"}
      [] OTHER -> {}

Bound(t) == UNION {Binds(WordsOf(splitlines(t)[i])) : i \in 1..Len(splitlines(t))}

Referred(t) == UNION {Refers(WordsOf(splitlines(t)[i])) : i \in 1..Len(splitlines(t))}

\* C13: detect_unused_imports returns an imported local name if and only
\* if the name is no plain Name reference anywhere in the tree; the members
\* of a wildcard import are never returned.
C13_UnusedIffNeverReferred ==
    (pc \in {"pf_renames", "pf_final", "pf_write", "w_open", "w_write", "pf_return"}
        /\ tree.ok)
        => Range(result.unused_imports) = Bound(original) \ Referred(original)

\* a file with an import that is unused and one that is not
C13_UsedAndUnusedImport ==
    /\ pc = "pf_renames"
    /\ result.unused_imports # <<>>
    /\ Bound(original) \cap Referred(original) # {}

\* C14: when fix mode removes unused imports, an import statement of
\* several names of which only some are unused loses the unused names only:
\* every name the file imported and refers to is still imported by the text.
C14_UsedNamesStayImported ==
    (pc = "pf_renames" /\ args.fix /\ tree.ok)
        => \A n \in Bound(original) \cap Referred(original) :
               n \in Range(ast_parse(text).imports)

\* the leading white space of the lines of t that have some
Prefixes(t) ==
    {Take(splitlines(t)[i], PrefixLen(splitlines(t)[i], Blank)) :
        i \in 1..Len(splitlines(t))} \ {<<>>}

\* the messages of mixed indentation among msgs
MixedCount(msgs) == Count(msgs, Msg("Mixed tabs and spaces", 0))

\* C15 as stated: the message of mixed indentation is emitted once for a
\* file with a leading white space of tabs only and one with a space, and
\* not at all for any other file.
C15_MixedIffTabOnlyPrefix ==
    pc # "pf_start" =>
        MixedCount(result.lint_messages) =
            IF /\ \E p \in Prefixes(original) : Range(p) = {"\t"}
               /\ \E p \in Prefixes(original) : " " \in Range(p)
            THEN 1 ELSE 0

\* C15, amended: the message of mixed indentation is emitted once for a
\* file with a leading white space that has a tab and one, the same or
\* another, that has a space, and not at all for any other file.
C15_MixedIffTabAndSpace ==
    pc # "pf_start" =>
        MixedCount(result.lint_messages) =
            IF /\ \E p \in Prefixes(original) : "\t" \in Range(p)
               /\ \E p \in Prefixes(original) : " " \in Range(p)
            THEN 1 ELSE 0

\* a file of a line indented with a tab and a line indented with spaces got
\* one message
C15_OneMessageForTwoLines ==
    /\ pc = "pf_format"
    /\ MixedCount(result.lint_messages) = 1
    /\ <<"\t">> \in Prefixes(original)
    /\ \E p \in Prefixes(original) : Range(p) = {" "}

====
